---------------------------- MODULE Spec2Model ----------------------------
(***************************************************************************)
(* A model of the orchestration core of ai-dreaming2:                      *)
(*   - ConversationEngine of src/multi_agent_system.py (start_conversation,*)
(*     process_conversation, add_agent, the outbound message_queue), used  *)
(*     by one caller thread;                                               *)
(*   - MultiAgentSystem of src/multi_agent_system.py: the threads of       *)
(*     start_conversation_session on that engine, and the monitor that     *)
(*     drains the message_queue into the messages table;                   *)
(*   - MemorySystem of src/dreaming_ai.py (the short-term buffer and the   *)
(*     two durable tables thoughts and golden_thoughts), its               *)
(*     InterestDetector and the session loop of DreamingAI.                *)
(***************************************************************************)
EXTENDS Integers, Sequences, FiniteSets, TLC

(***************************************************************************)
(* Bounds of the model.                                                    *)
(***************************************************************************)
\* agent ids are 1..NumAgents
NumAgents == 3
\* process_conversation is called with max_exchanges in 0..MaxExchanges
MaxExchanges == 2
\* a process call is started only while all conversations together hold at
\* most MaxMsgs messages once it is done
MaxMsgs == 3
\* the clock (milliseconds) runs from 0 to MaxTime
MaxTime == 2

\* the capacity of the short-term buffer, self.max_short_term: 20 in
\* MemorySystem.__init__, which the code reads only in the comparison
\* len(self.short_term_memory) > self.max_short_term; scaled down here
max_short_term == 2
\* add_thought is called at most MaxAdds times
MaxAdds == 4
\* get_recent_thoughts is called with limit in 0..MaxLimit
MaxLimit == 3
\* a text given to the InterestDetector holds at most MaxWords words
MaxWords == 3
\* max_thoughts_per_session is configured in 0..MaxThoughts
MaxThoughts == 3
\* the sessions of a DreamingAI give add_thought at most MaxDreamAdds thoughts
MaxDreamAdds == 2
\* start_conversation_session starts at most MaxSessions threads
MaxSessions == 2

AgentIds == 1..NumAgents
\* the conversation ids a caller uses
ConvIds == {"conv_1"}
\* the ids process_conversation is called with: conv_0 is never started
ProcessIds == ConvIds \cup {"conv_0"}

\* Python's None, for an optional id (ids are tuples, see MsgId)
None == <<>>

Min(a, b) == IF a < b THEN a ELSE b

\* the last min(n, len) elements of s, for n >= 0
LastN(s, n) == SubSeq(s, Len(s) - Min(n, Len(s)) + 1, Len(s))

\* Python's s[-k:] for any integer k: the last k elements for k > 0 (all of
\* s when k > len), all of s for k = 0 since -0 = 0, and s without its
\* first -k elements for k < 0
PySuffix(s, k) ==
    IF k > 0 THEN SubSeq(s, Len(s) - Min(k, Len(s)) + 1, Len(s))
    ELSE IF k = 0 THEN s
    ELSE SubSeq(s, Min(-k, Len(s)) + 1, Len(s))

VARIABLES
    agents,          \* ConversationEngine.agents: agent id -> Agent (its memory_buffer)
    conversations,   \* ConversationEngine.conversations: conversation id -> list of messages
    message_queue,   \* ConversationEngine.message_queue (queue.Queue, unbounded)
    now,             \* the wall clock, int(time.time() * 1000)
    call,            \* the process_conversation call in flight (its locals), or idle
    completed,       \* conversation ids logged "completed" at the end of process_conversation
    ret,             \* the last engine operation that returned, and how
    short_term_memory,  \* MemorySystem.short_term_memory
    thoughts,           \* the durable table thoughts, its rows in rowid order
    golden_thoughts,    \* the durable table golden_thoughts, its rows in rowid order
    ever_added,         \* the Thoughts given to add_thought so far, in call order
    instance_start,     \* Len(ever_added) when the current MemorySystem was constructed
    golden_given,       \* id -> the Thought last given to add_golden_thought
    mret,               \* the last MemorySystem operation that returned, and its value
    sret,               \* the last InterestDetector call that returned, and its value
    config,             \* DreamingAI.config
    is_dreaming,        \* DreamingAI.is_dreaming
    thoughts_generated, \* DreamingAI.thoughts_generated (the ids of its Thoughts)
    dream,              \* the start_dreaming call in flight (its locals), or idle
    dret,               \* the last start_dreaming call that returned, and how
    suspended,          \* the start_dreaming call of a second thread that is not scheduled (its locals), or idle
    system_config,        \* MultiAgentSystem.config
    threads,              \* the threads made by start_conversation_session, in order, with their locals
    active_conversations, \* MultiAgentSystem.active_conversations: conversation id -> thread
    messages,             \* the durable table messages, its rows in rowid order
    received,             \* the messages monitor_conversations has taken from the queue, in order
    monitor               \* the monitor_conversations call: idle, running, returned or interrupted

engineVars == <<agents, conversations, message_queue, now, call, completed, ret>>

sysVars == <<system_config, threads, active_conversations, messages, received, monitor>>

memVars == <<short_term_memory, thoughts, golden_thoughts,
             ever_added, instance_start, golden_given, mret>>

(***************************************************************************)
(* ConversationEngine (src/multi_agent_system.py)                          *)
(***************************************************************************)
\* recent_messages = conversation_history[-5:]
ContextWindow == 5
\* if len(next_agent.memory_buffer) > 10: pop(0)
AgentMemoryCap == 10

\* initial_topic of start_conversation; None and "" are both falsy in
\* "if initial_topic:" and are modelled by ""
Topics == {"", "topic"}
\* what the inference backend does with one request
BackendOutcomes == {"text", "blank", "error_status", "exception"}

\* the dataclass AgentMessage; interest_score keeps its default 0.0
AgentMessage(id, timestamp, agent_id, content, response_to, conversation_id) ==
    [id |-> id, timestamp |-> timestamp, agent_id |-> agent_id,
     content |-> content, response_to |-> response_to,
     conversation_id |-> conversation_id, interest_score |-> 0]

\* the dataclass Agent as add_agent receives it from generate_agent:
\* __post_init__ gives it an empty memory_buffer
Agent == [memory_buffer |-> <<>>]

\* no process_conversation call is running. A running call holds its
\* locals and what it has met so far: asked (generate_response was called),
\* caught (its except clause caught an exception), completed0 (the
\* conversation was logged "completed" before the call) and backend_failed
\* (a request to the backend failed and was answered by the fallback)
Idle ==
    [pc |-> "idle", conversation_id |-> "", max_exchanges |-> 0, exchanges |-> 0,
     next_agent |-> 0, recent_messages |-> <<>>, len0 |-> 0, asked |-> FALSE,
     caught |-> FALSE, completed0 |-> FALSE, backend_failed |-> FALSE]

\* what start_conversation or process_conversation reports when it returns:
\* raised (an exception left the call), existed (the conversation id was
\* registered when it was called), n_agents (the agents registered during
\* the call), and for process_conversation its arguments, its local
\* exchanges, the conversation's length on entry (len0), whether
\* generate_response was called at all (asked) and whether the except
\* clause of the loop caught an exception (caught)
Returned(op, c, raised, existed, n, exchanges, len0, asked, caught) ==
    [op |-> op, conversation_id |-> c, raised |-> raised, existed |-> existed,
     n_agents |-> Cardinality(DOMAIN agents),
     max_exchanges |-> n, exchanges |-> exchanges, len0 |-> len0, asked |-> asked,
     caught |-> caught, completed0 |-> FALSE, backend_failed |-> FALSE]

RECURSIVE SumLen(_, _)
SumLen(f, S) ==
    IF S = {} THEN 0
    ELSE LET x == CHOOSE y \in S : TRUE
         IN Len(f[x]) + SumLen(f, S \ {x})

\* the messages of all conversations together
TotalMsgs == SumLen(conversations, DOMAIN conversations)

\* _generate_conversation_seed: one of ten canned sentences
_generate_conversation_seed == "seed"

\* _fallback_response: one of six canned, non-empty sentences
_fallback_response == "fallback"

\* (mutant) a well-formed placeholder agent
UnknownAgentRaises_never == FALSE

\* Agent("unknown", "Unknown", [], "", ""), the default that line 166 builds
\* for every message of the context before it looks the speaker up: the
\* dataclass Agent has six required fields (id, name, personality_traits,
\* current_focus, model, conversation_style) and is given five, so the
\* constructor raises TypeError
UnknownAgentRaises == TRUE

\* the head of generate_response, lines 162-167, outside its try: the loop
\* over recent_messages raises on the first message
ContextRaises(recent_messages) == recent_messages # <<>> /\ UnknownAgentRaises

\* generate_response, from the answer of the backend on: status 200 gives
\* the stripped content (possibly empty), any other status and any
\* exception give the fallback
generate_response(outcome) ==
    CASE outcome = "text" -> "text"
      [] outcome = "blank" -> ""
      [] outcome = "error_status" -> _fallback_response
      [] outcome = "exception" -> _fallback_response

\* the request failed: a status other than 200, or requests.post raised
BackendFailed(outcome) == outcome \in {"error_status", "exception"}

\* (mutant) a queue that drops what it is given
put_dropped(queue, item) == queue

\* queue.Queue() of line 105 has no maxsize: put appends and never waits
put(queue, item) == Append(queue, item)

EngineInit ==
    /\ agents = <<>>
    /\ conversations = <<>>
    /\ message_queue = <<>>
    /\ now = 0
    /\ call = Idle
    /\ completed = {}
    /\ ret = [Returned("init", "", FALSE, FALSE, 0, 0, 0, FALSE, FALSE) EXCEPT !.n_agents = 0]

\* time passes
Tick ==
    /\ now < MaxTime
    /\ now' = now + 1
    /\ UNCHANGED <<agents, conversations, message_queue, call, completed, ret>>

\* self.agents[agent.id] = agent
add_agent(a) ==
    /\ call.pc = "idle"
    /\ agents' = [x \in DOMAIN agents \cup {a} |-> IF x = a THEN Agent ELSE agents[x]]
    /\ UNCHANGED <<conversations, message_queue, now, call, completed, ret>>

\* (mutant) start_conversation without its early return
AlreadyStarted_never(c) == FALSE

\* the early return of start_conversation, line 115
AlreadyStarted(c) == c \in DOMAIN conversations

start_conversation(c, initial_topic) ==
    /\ call.pc = "idle"
    /\ IF AlreadyStarted(c)
       THEN /\ ret' = Returned("start_conversation", c, FALSE, TRUE, 0, 0, 0, FALSE, FALSE)
            /\ UNCHANGED <<conversations, message_queue>>
       ELSE IF DOMAIN agents = {}
       THEN \* random.choice([]) raises IndexError after the empty list was registered
            /\ conversations' = [x \in DOMAIN conversations \cup {c} |->
                                    IF x = c THEN <<>> ELSE conversations[x]]
            /\ ret' = Returned("start_conversation", c, TRUE, FALSE, 0, 0, 0, FALSE, FALSE)
            /\ UNCHANGED message_queue
       ELSE \E first_agent \in DOMAIN agents :
              LET seed_message == IF initial_topic # "" THEN initial_topic
                                  ELSE _generate_conversation_seed
                  initial_message == AgentMessage(<<now>>, now, first_agent,
                                                  seed_message, None, c)
              IN /\ conversations' = [x \in DOMAIN conversations \cup {c} |->
                                         IF x = c THEN <<initial_message>>
                                         ELSE conversations[x]]
                 /\ message_queue' = put(message_queue, initial_message)
                 /\ ret' = Returned("start_conversation", c, FALSE, FALSE, 0, 0, 0, FALSE, FALSE)
    /\ UNCHANGED <<agents, now, call, completed>>

\* (mutant) an unknown id is registered with an empty conversation
conversation_registered_empty(convs, c) ==
    [x \in DOMAIN convs \cup {c} |-> IF x \in DOMAIN convs THEN convs[x] ELSE <<>>]

\* lines 232-234: an unknown id is logged and the call returns; the
\* conversations are as they were
conversation_not_found(convs, c) == convs

\* process_conversation up to the loop: lines 232-237
process_conversation(c, max_exchanges) ==
    /\ call.pc = "idle"
    /\ IF c \notin DOMAIN conversations
       THEN /\ ret' = Returned("process_conversation", c, FALSE, FALSE,
                               max_exchanges, 0, 0, FALSE, FALSE)
            /\ conversations' = conversation_not_found(conversations, c)
            /\ UNCHANGED call
       ELSE /\ TotalMsgs + max_exchanges <= MaxMsgs
            /\ call' = [Idle EXCEPT !.pc = "loop", !.conversation_id = c,
                                    !.max_exchanges = max_exchanges,
                                    !.len0 = Len(conversations[c]),
                                    !.completed0 = (c \in completed)]
            /\ UNCHANGED <<ret, conversations>>
    /\ UNCHANGED <<agents, message_queue, now, completed>>

\* (mutant) the loop runs once more than asked
loop_test_le(exchanges, max_exchanges) == exchanges <= max_exchanges

\* while exchanges < max_exchanges, line 239
loop_test(exchanges, max_exchanges) == exchanges < max_exchanges

\* (mutant) the last speaker is not excluded
available_agents_all(conversation) == DOMAIN agents

\* the agents that may speak next: all but the last speaker (lines 242-243)
available_agents(conversation) ==
    LET last_speaker == IF conversation # <<>>
                        THEN {conversation[Len(conversation)].agent_id}
                        ELSE {}
    IN DOMAIN agents \ last_speaker

\* the end of process_conversation, line 280, after the loop ended, broke
\* at line 246 or broke in its except clause (caught), lines 276-278
process_return(asked, caught) ==
    /\ completed' = completed \cup {call.conversation_id}
    /\ ret' = [Returned("process_conversation", call.conversation_id,
                        FALSE, TRUE, call.max_exchanges, call.exchanges,
                        call.len0, asked, caught)
               EXCEPT !.completed0 = call.completed0,
                      !.backend_failed = call.backend_failed]
    /\ call' = Idle

\* (mutant) except Exception: continue
except_breaks_continue == FALSE

\* the except clause of the loop ends with break, line 278
except_breaks == TRUE

\* the head of one iteration, lines 239-251 and 162-187: the loop test, the
\* choice of the speaker, the context and the request to the backend; or
\* the end of the loop
process_select ==
    /\ call.pc = "loop"
    /\ LET conversation == conversations[call.conversation_id]
           recent_messages == PySuffix(conversation, ContextWindow)
       IN IF loop_test(call.exchanges, call.max_exchanges)
             /\ available_agents(conversation) # {}
          THEN IF ContextRaises(recent_messages)
               THEN IF except_breaks
                    THEN process_return(TRUE, TRUE)
                    ELSE /\ call' = [call EXCEPT !.asked = TRUE, !.caught = TRUE]
                         /\ UNCHANGED <<completed, ret>>
               ELSE /\ \E next_agent \in available_agents(conversation) :
                          call' = [call EXCEPT !.pc = "request",
                                               !.next_agent = next_agent,
                                               !.recent_messages = recent_messages,
                                               !.asked = TRUE]
                    /\ UNCHANGED <<completed, ret>>
          ELSE process_return(call.asked, call.caught)
    /\ UNCHANGED <<agents, conversations, message_queue, now>>

\* the rest of the iteration, lines 189-198 and 253-271: the backend's
\* answer becomes a message, or nothing when the content is empty
process_respond(outcome) ==
    /\ call.pc = "request"
    /\ LET c == call.conversation_id
           conversation == conversations[c]
           next_agent == call.next_agent
           response_content == generate_response(outcome)
           response_msg ==
               AgentMessage(<<now, call.exchanges>>, now, next_agent, response_content,
                            IF conversation # <<>> THEN conversation[Len(conversation)].id
                            ELSE None,
                            c)
           buffer == Append(agents[next_agent].memory_buffer, response_msg)
       IN IF response_content # ""
          THEN /\ conversations' = [conversations EXCEPT ![c] = Append(conversation, response_msg)]
               /\ message_queue' = put(message_queue, response_msg)
               /\ agents' = [agents EXCEPT ![next_agent].memory_buffer =
                                IF Len(buffer) > AgentMemoryCap THEN Tail(buffer) ELSE buffer]
               /\ call' = [call EXCEPT !.pc = "sleep", !.exchanges = call.exchanges + 1,
                                        !.backend_failed =
                                            call.backend_failed \/ BackendFailed(outcome)]
          ELSE /\ call' = [call EXCEPT !.pc = "loop"]
               /\ UNCHANGED <<conversations, message_queue, agents>>
    /\ UNCHANGED <<now, completed, ret>>

\* time.sleep(random.uniform(2, 5)), line 274: at least one clock tick
process_sleep ==
    /\ call.pc = "sleep"
    /\ \E t \in (now + 1)..MaxTime : now' = t
    /\ call' = [call EXCEPT !.pc = "loop"]
    /\ UNCHANGED <<agents, conversations, message_queue, completed, ret>>

EngineNext ==
    \/ Tick
    \/ \E a \in AgentIds : add_agent(a)
    \/ \E c \in ConvIds, t \in Topics : start_conversation(c, t)
    \/ \E c \in ProcessIds, n \in 0..MaxExchanges : process_conversation(c, n)
    \/ process_select
    \/ \E o \in BackendOutcomes : process_respond(o)
    \/ process_sleep

(***************************************************************************)
(* MemorySystem (src/dreaming_ai.py)                                       *)
(***************************************************************************)
ThoughtIds == {"t1", "t2", "t3"}
ThoughtContents == {"a", "b"}
\* interest_score, in tenths
Scores == {5, 9}
\* the discovery_context _process_thought passes
Contexts == {"Autonomous discovery during dreaming"}

\* a datetime: seconds and microseconds
Stamp(sec, micro) == [sec |-> sec, micro |-> micro]

\* a whole second, a later instant within it, and the next whole second
Stamps == {Stamp(0, 0), Stamp(0, 1), Stamp(1, 0)}

\* the dataclass Thought
Thought(id, timestamp, content, thought_type, parent_id, interest_score, tags) ==
    [id |-> id, timestamp |-> timestamp, content |-> content,
     thought_type |-> thought_type, parent_id |-> parent_id,
     interest_score |-> interest_score, tags |-> tags]

\* the records given to add_thought in SpecMem: two ids, two contents
MemThoughts ==
    {Thought(i, Stamp(0, 0), c, "reasoning", None, 5, <<>>) :
        i \in {"t1", "t2"}, c \in ThoughtContents}

\* the record given to add_thought in SpecGolden
PlainThoughts == {Thought("t1", Stamp(0, 0), "a", "reasoning", None, 5, <<>>)}

\* the records given to add_golden_thought in SpecGolden: three ids, all
\* scores and timestamps
GoldenThoughts ==
    {Thought(i, ts, "a", "gold_strike", None, sc, <<>>) :
        i \in ThoughtIds, ts \in Stamps, sc \in Scores}

\* datetime.isoformat(): the date and time to the second in fields of fixed
\* width (one character of the model), followed by the microseconds in a
\* field of fixed width only when they are not 0
isoformat(timestamp) ==
    IF timestamp.micro = 0 THEN <<timestamp.sec>>
    ELSE <<timestamp.sec, timestamp.micro>>

\* the order of SQLite on TEXT values (memcmp, a proper prefix first)
RECURSIVE TextLess(_, _)
TextLess(a, b) ==
    IF b = <<>> THEN FALSE
    ELSE IF a = <<>> THEN TRUE
    ELSE IF Head(a) # Head(b) THEN Head(a) < Head(b)
    ELSE TextLess(Tail(a), Tail(b))

\* (mutant) INSERT into a table without its primary key
InsertOrReplace_insert(table, row) == Append(table, row)

\* INSERT OR REPLACE on a table whose primary key is id: the row that holds
\* the id is deleted and the new row gets the next rowid
InsertOrReplace(table, row) ==
    Append(SelectSeq(table, LAMBDA r : r.id # row.id), row)

\* (mutant) the newest record is evicted
evict_newest(buffer) ==
    IF Len(buffer) > max_short_term THEN SubSeq(buffer, 1, Len(buffer) - 1) ELSE buffer

\* if len(self.short_term_memory) > self.max_short_term: pop(0)
evict(buffer) ==
    IF Len(buffer) > max_short_term THEN Tail(buffer) ELSE buffer

\* what a MemorySystem operation reports when it returns: its argument
\* limit (n), its value (val) and, for the two writers, whether the table
\* held a row with the record's id when they were called (existed)
MemReturned(op, n, val, existed) ==
    [op |-> op, n |-> n, val |-> val, existed |-> existed]

\* the table holds a row with this id
HasRow(table, id) == \E i \in DOMAIN table : table[i].id = id

\* (mutant) a constructor that loads the buffer from the durable table
InitialShortTerm_loaded == thoughts

\* self.short_term_memory = [] in __init__
InitialShortTerm == <<>>

\* a first MemorySystem over a new database file
MemInit ==
    /\ short_term_memory = <<>>
    /\ thoughts = <<>>
    /\ golden_thoughts = <<>>
    /\ ever_added = <<>>
    /\ instance_start = 0
    /\ golden_given = <<>>
    /\ mret = MemReturned("init", 0, <<>>, FALSE)

\* MemorySystem.__init__ over the database file of an earlier instance:
\* CREATE TABLE IF NOT EXISTS keeps the rows
MemorySystem_init ==
    /\ short_term_memory' = InitialShortTerm
    /\ instance_start' = Len(ever_added)
    /\ mret' = MemReturned("init", 0, <<>>, FALSE)
    /\ UNCHANGED <<thoughts, golden_thoughts, ever_added, golden_given>>

add_thought(thought) ==
    /\ Len(ever_added) < MaxAdds
    /\ short_term_memory' = evict(Append(short_term_memory, thought))
    /\ thoughts' = InsertOrReplace(thoughts,
                       [id |-> thought.id,
                        timestamp |-> isoformat(thought.timestamp),
                        content |-> thought.content,
                        thought_type |-> thought.thought_type,
                        parent_id |-> thought.parent_id,
                        interest_score |-> thought.interest_score,
                        tags |-> thought.tags])
    /\ ever_added' = Append(ever_added, thought)
    /\ mret' = MemReturned("add_thought", 0, <<>>, HasRow(thoughts, thought.id))
    /\ UNCHANGED <<golden_thoughts, instance_start, golden_given>>

add_golden_thought(thought, context) ==
    /\ golden_thoughts' = InsertOrReplace(golden_thoughts,
                              [id |-> thought.id,
                               timestamp |-> isoformat(thought.timestamp),
                               content |-> thought.content,
                               interest_score |-> thought.interest_score,
                               discovery_context |-> context])
    /\ golden_given' = [x \in DOMAIN golden_given \cup {thought.id} |->
                           IF x = thought.id THEN thought ELSE golden_given[x]]
    /\ mret' = MemReturned("add_golden_thought", 0, <<>>,
                            HasRow(golden_thoughts, thought.id))
    /\ UNCHANGED <<short_term_memory, thoughts, ever_added, instance_start>>

\* return self.short_term_memory[-limit:]
get_recent_thoughts(limit) ==
    /\ mret' = MemReturned("get_recent_thoughts", limit,
                            PySuffix(short_term_memory, limit), FALSE)
    /\ UNCHANGED <<short_term_memory, thoughts, golden_thoughts,
                   ever_added, instance_start, golden_given>>

\* (mutant) ORDER BY interest_score DESC, timestamp ASC
RowBefore_asc(r1, r2) ==
    \/ r1.interest_score > r2.interest_score
    \/ r1.interest_score = r2.interest_score /\ TextLess(r1.timestamp, r2.timestamp)

\* ORDER BY interest_score DESC, timestamp DESC: r1 sorts strictly before r2
RowBefore(r1, r2) ==
    \/ r1.interest_score > r2.interest_score
    \/ r1.interest_score = r2.interest_score /\ TextLess(r2.timestamp, r1.timestamp)

\* row into a sorted list, behind the rows it does not sort strictly before
RECURSIVE SortedInsert(_, _)
SortedInsert(sorted, row) ==
    IF sorted = <<>> THEN <<row>>
    ELSE IF RowBefore(row, Head(sorted)) THEN <<row>> \o sorted
    ELSE <<Head(sorted)>> \o SortedInsert(Tail(sorted), row)

\* the rows in the order of ORDER BY: a stable sort of the rows scanned in
\* rowid order
RECURSIVE OrderBy(_)
OrderBy(rows) ==
    IF rows = <<>> THEN <<>>
    ELSE SortedInsert(OrderBy(SubSeq(rows, 1, Len(rows) - 1)), rows[Len(rows)])

\* SELECT id, timestamp, content, interest_score, discovery_context
\* FROM golden_thoughts ORDER BY interest_score DESC, timestamp DESC
get_golden_thoughts ==
    /\ mret' = MemReturned("get_golden_thoughts", 0, OrderBy(golden_thoughts), FALSE)
    /\ UNCHANGED <<short_term_memory, thoughts, golden_thoughts,
                   ever_added, instance_start, golden_given>>

\* one MemorySystem at a time over one database file, one caller thread
MemNext ==
    \/ MemorySystem_init
    \/ \E t \in MemThoughts : add_thought(t)
    \/ \E n \in 0..MaxLimit : get_recent_thoughts(n)

\* the golden table, beside a buffer and a thoughts table that hold records
GoldenNext ==
    \/ \E t \in GoldenThoughts, c \in Contexts : add_golden_thought(t, c)
    \/ get_golden_thoughts
    \/ \E t \in PlainThoughts : add_thought(t)

(***************************************************************************)
(* InterestDetector (src/dreaming_ai.py)                                   *)
(* A text is a sequence of words; a keyword is one word, and it is a       *)
(* substring of a text when it is one of the text's words. Scores are in   *)
(* hundredths.                                                             *)
(***************************************************************************)
\* the words of the texts: a plain word, keywords as the lists spell them,
\* keywords typed with a capital, the two punctuation marks, and runs of
\* 100 and of 101 plain characters
Words == {"plain", "pattern", "Pattern", "insight", "eureka", "Eureka",
          "profound", "now I see", "?", "!", "run100", "run101"}

\* str.lower() on one word
LowerWord(w) ==
    CASE w = "Pattern" -> "pattern"
      [] w = "Eureka" -> "eureka"
      [] w = "now I see" -> "now i see"
      [] OTHER -> w

\* str.lower()
lower(thought) == [i \in DOMAIN thought |-> LowerWord(thought[i])]

\* len() of one word; the short words are given no length, so that a text
\* is longer than 100 characters exactly through its runs and marks
WordLen(w) ==
    CASE w = "run100" -> 100
      [] w = "run101" -> 101
      [] w \in {"?", "!"} -> 1
      [] OTHER -> 0

\* len(thought)
RECURSIVE len(_)
len(thought) == IF thought = <<>> THEN 0 ELSE WordLen(Head(thought)) + len(Tail(thought))

\* thought.count(mark)
count(thought, mark) == Cardinality({i \in DOMAIN thought : thought[i] = mark})

\* keyword in text
In(keyword, text) == \E i \in DOMAIN text : text[i] = keyword

\* self.interest_keywords (three of its 22 entries)
interest_keywords == {"pattern", "insight", "interesting"}

\* self.gold_strike_indicators (three of its 11 entries), as the list
\* spells them: 'now I see' with a capital I
gold_strike_indicators == {"eureka", "profound", "now I see"}

\* (mutant) return score
cap_none(score) == score

\* return min(score, 1.0)
cap(score) == Min(score, 100)

\* for indicator in self.gold_strike_indicators:
\*     if indicator in thought_lower: score += 0.5
indicator_bonus(thought_lower) ==
    50 * Cardinality({k \in gold_strike_indicators : In(k, thought_lower)})

\* (mutant) if len(thought) >= 100
length_bonus_ge(n) == IF n >= 100 THEN 10 ELSE 0

\* if len(thought) > 100: score += 0.1
length_bonus(n) == IF n > 100 THEN 10 ELSE 0

calculate_interest_score(thought) ==
    LET thought_lower == lower(thought)
    IN cap(10 * Cardinality({k \in interest_keywords : In(k, thought_lower)})
           + indicator_bonus(thought_lower)
           + length_bonus(len(thought))
           + count(thought, "?") * 5
           + count(thought, "!") * 10)

\* any(indicator in thought.lower() for indicator in self.gold_strike_indicators)
any_indicator(thought_lower) == \E k \in gold_strike_indicators : In(k, thought_lower)

is_gold_strike(thought, score) == score > 60 \/ any_indicator(lower(thought))

\* the texts given to the InterestDetector
Texts == UNION {[1..n -> Words] : n \in 0..MaxWords}

\* the scores given to is_gold_strike: below, at and above the threshold
ScoreInputs == {0, 50, 60, 65, 100}

\* what a call of the InterestDetector reports when it returns
ScoreReturned(op, thought, score, val) ==
    [op |-> op, thought |-> thought, score |-> score, val |-> val]

\* no call of the InterestDetector yet
ScoreInit == sret = ScoreReturned("init", <<>>, 0, 0)

\* the arguments of a call of the InterestDetector: any text, any score
ScoreInputInit ==
    \E t \in Texts, sc \in ScoreInputs : sret = ScoreReturned("input", t, sc, 0)

call_calculate_interest_score ==
    sret' = ScoreReturned("calculate_interest_score", sret.thought, sret.score,
                          calculate_interest_score(sret.thought))

call_is_gold_strike ==
    sret' = ScoreReturned("is_gold_strike", sret.thought, sret.score,
                          is_gold_strike(sret.thought, sret.score))

\* the InterestDetector called on the arguments
ScoreNext ==
    \/ call_calculate_interest_score
    \/ call_is_gold_strike

scoreVars == <<sret>>

(***************************************************************************)
(* DreamingAI (src/dreaming_ai.py): the single-loop session                *)
(***************************************************************************)
\* the seed of ThoughtSeeder.generate_seed: "How do patterns emerge from chaos?"
SeedContents == {<<"pattern", "?">>}

\* the texts the backend answers with: one that holds the indicator
\* 'now I see' and nothing else that counts, one that holds two indicators
\* spelled in lower case
DreamTexts == {<<"now I see">>, <<"eureka", "profound", "!">>}

\* "I notice something interesting about the nature of thought itself..."
canned_error_status == <<"interesting">>

\* "In this moment of silence, new possibilities emerge..."
canned_exception == <<"silence">>

\* what the request of generate_thought can meet
ThoughtOutcomes == {"text", "blank", "error_status", "exception"}

\* ReasoningEngine.generate_thought from the answer of the backend on
\* (lines 121-146): status 200 gives the stripped response, possibly empty;
\* another status and an exception give a canned text
generate_thought(outcome, text) ==
    CASE outcome = "text" -> text
      [] outcome = "blank" -> <<>>
      [] outcome = "error_status" -> canned_error_status
      [] outcome = "exception" -> canned_exception

\* no start_dreaming call is running. A running call holds the locals of
\* _dream_loop and what the session has met: in_loop (the thought in hand
\* is processed inside the try of the loop), cleared (stop_dreaming cleared
\* the flag during the session), after_clear (the thoughts add_thought
\* stored after that), processed (the _process_thought calls that
\* returned), storage_failed (a durable write raised), backend_failed
\* (a request to the backend failed) and began_after_clear (an iteration
\* began after stop_dreaming cleared the flag)
DreamIdle ==
    [pc |-> "idle", thought_count |-> 0, thought |-> None, in_loop |-> FALSE,
     cleared |-> FALSE, after_clear |-> 0, processed |-> 0,
     storage_failed |-> FALSE, backend_failed |-> FALSE,
     began_after_clear |-> FALSE]

\* what start_dreaming reports when it returns
DreamReturned(op, raised, interrupted) ==
    [op |-> op, raised |-> raised, interrupted |-> interrupted,
     thought_count |-> dream.thought_count, max_thoughts |-> config.max_thoughts,
     cleared |-> dream.cleared, after_clear |-> dream.after_clear,
     processed |-> dream.processed, storage_failed |-> dream.storage_failed,
     backend_failed |-> dream.backend_failed,
     began_after_clear |-> dream.began_after_clear]

\* DreamingAI.__init__ with the cap c in the configuration
DreamInitWith(c) ==
    /\ config = [max_thoughts |-> c]
    /\ is_dreaming = FALSE
    /\ thoughts_generated = <<>>
    /\ dream = DreamIdle
    /\ suspended = DreamIdle
    /\ dret = [op |-> "init", raised |-> FALSE, interrupted |-> FALSE,
               thought_count |-> 0, max_thoughts |-> c, cleared |-> FALSE,
               after_clear |-> 0, processed |-> 0, storage_failed |-> FALSE,
               backend_failed |-> FALSE, began_after_clear |-> FALSE]

DreamInit == DreamInitWith(MaxThoughts)

DreamConfigInit == \E c \in 0..MaxThoughts : DreamInitWith(c)

dreamVars == <<config, is_dreaming, thoughts_generated, dream, dret, suspended>>

\* the number of stored units the loop asks for as context, line 502
DreamContext == 10

\* add_thought when sqlite raises (connect, execute or commit, lines
\* 265-283): the buffer has been updated at lines 259-263, the table is
\* as it was
add_thought_raises(thought) ==
    /\ Len(ever_added) < MaxDreamAdds
    /\ short_term_memory' = evict(Append(short_term_memory, thought))
    /\ ever_added' = Append(ever_added, thought)
    /\ mret' = MemReturned("add_thought_raised", 0, <<>>, HasRow(thoughts, thought.id))
    /\ UNCHANGED <<thoughts, golden_thoughts, instance_start, golden_given>>

\* add_golden_thought when sqlite raises (lines 288-303): nothing is
\* written
add_golden_thought_raises(thought) ==
    /\ mret' = MemReturned("add_golden_thought_raised", 0, <<>>,
                            HasRow(golden_thoughts, thought.id))
    /\ UNCHANGED <<short_term_memory, thoughts, golden_thoughts,
                   ever_added, instance_start, golden_given>>

\* start_dreaming up to the call of _dream_loop, lines 464-475 and 483-484
start_dreaming ==
    /\ dream.pc = "idle"
    /\ ~is_dreaming
    /\ Len(ever_added) < MaxDreamAdds
    /\ is_dreaming' = TRUE
    /\ thoughts_generated' = <<>>
    /\ dream' = [DreamIdle EXCEPT !.pc = "seed"]
    /\ UNCHANGED <<config, dret, now, memVars, sret>>

\* the end of start_dreaming: the finally clause calls stop_dreaming, which
\* clears the flag if it is set (lines 476-479, 545-550)
dream_return(raised, interrupted, storage_failed) ==
    /\ is_dreaming' = FALSE
    /\ dret' = [DreamReturned("start_dreaming", raised, interrupted)
                EXCEPT !.storage_failed = storage_failed]
    /\ dream' = DreamIdle

\* an exception of a durable write leaves _process_thought: inside the loop
\* the except clause of lines 523-525 takes it, for the seed (line 495) it
\* leaves _dream_loop and start_dreaming
dream_raise ==
    IF dream.in_loop
    THEN /\ dream' = [dream EXCEPT !.pc = "except", !.thought = None,
                                   !.storage_failed = TRUE]
         /\ UNCHANGED <<is_dreaming, dret>>
    ELSE dream_return(TRUE, FALSE, TRUE)

\* the seed thought, lines 487-495
dream_seed ==
    /\ dream.pc = "seed"
    /\ \E content \in SeedContents :
          dream' = [dream EXCEPT !.pc = "score", !.in_loop = FALSE,
                       !.thought = Thought(<<now>>, Stamp(now, 0), content,
                                           "seed", None, 0, <<>>)]
    /\ UNCHANGED <<config, is_dreaming, thoughts_generated, dret, now, memVars, sret>>

\* _process_thought, lines 530-534: the score and the gold flag
_process_thought_score ==
    /\ dream.pc = "score"
    /\ LET content == dream.thought.content
           score == calculate_interest_score(content)
           gold == is_gold_strike(content, score)
       IN /\ dream' = [dream EXCEPT
                          !.thought.interest_score = score,
                          !.thought.thought_type =
                              IF gold THEN "gold_strike" ELSE dream.thought.thought_type,
                          !.pc = IF gold THEN "golden" ELSE "store"]
          /\ sret' = ScoreReturned("calculate_interest_score", content, 0, score)
    /\ UNCHANGED <<config, is_dreaming, thoughts_generated, dret, now, memVars>>

\* _process_thought, lines 535-536: the golden record
_process_thought_golden ==
    /\ dream.pc = "golden"
    /\ \/ /\ \E c \in Contexts : add_golden_thought(dream.thought, c)
          /\ dream' = [dream EXCEPT !.pc = "store"]
          /\ UNCHANGED <<is_dreaming, dret>>
       \/ /\ add_golden_thought_raises(dream.thought)
          /\ dream_raise
    /\ UNCHANGED <<config, thoughts_generated, now, sret>>

\* _process_thought, lines 539-543, and thought_count += 1
_process_thought_store ==
    /\ dream.pc = "store"
    /\ \/ /\ Len(ever_added) < MaxDreamAdds
          /\ add_thought(dream.thought)
          /\ thoughts_generated' = Append(thoughts_generated, dream.thought.id)
          /\ dream' = [dream EXCEPT
                          !.pc = IF dream.in_loop THEN "sleep" ELSE "test",
                          !.thought = None,
                          !.thought_count = dream.thought_count + 1,
                          !.processed = dream.processed + 1,
                          !.after_clear = dream.after_clear
                                          + (IF dream.cleared THEN 1 ELSE 0)]
          /\ UNCHANGED <<is_dreaming, dret>>
       \/ /\ add_thought_raises(dream.thought)
          /\ dream_raise
          /\ UNCHANGED thoughts_generated
    /\ UNCHANGED <<config, now, sret>>

\* (mutant) while thought_count < max_thoughts
dream_loop_test_count(flag, thought_count, max_thoughts) == thought_count < max_thoughts

\* while self.is_dreaming and thought_count < max_thoughts, line 499
dream_loop_test(flag, thought_count, max_thoughts) ==
    flag /\ thought_count < max_thoughts

\* the loop test, and the head of an iteration (lines 502-505: the context
\* is read and the request sent) or the end of the loop
dream_test ==
    /\ dream.pc = "test"
    /\ IF dream_loop_test(is_dreaming, dream.thought_count, config.max_thoughts)
       THEN /\ dream' = [dream EXCEPT !.pc = "generate", !.in_loop = TRUE,
                                      !.began_after_clear =
                                          dream.began_after_clear \/ dream.cleared]
            /\ UNCHANGED <<is_dreaming, dret>>
       ELSE dream_return(FALSE, FALSE, dream.storage_failed)
    /\ UNCHANGED <<config, thoughts_generated, now, memVars, sret>>

\* the answer of the backend and the new thought, lines 505-515
dream_generate(outcome, text) ==
    /\ dream.pc = "generate"
    /\ LET new_content == generate_thought(outcome, text)
           context == PySuffix(short_term_memory, DreamContext)
       IN IF new_content # <<>>
          THEN dream' = [dream EXCEPT
                            !.pc = "score",
                            !.backend_failed = dream.backend_failed
                                               \/ outcome \in {"error_status", "exception"},
                            !.thought = Thought(<<now, dream.thought_count>>,
                                                Stamp(now, 0), new_content, "reasoning",
                                                IF context # <<>>
                                                THEN context[Len(context)].id ELSE None,
                                                0, <<>>)]
          ELSE dream' = [dream EXCEPT !.pc = "sleep"]
    /\ UNCHANGED <<config, is_dreaming, thoughts_generated, dret, now, memVars, sret>>

\* time.sleep(dream_interval), line 521, and time.sleep(1) of the except
\* clause, line 525: at least one clock tick
dream_sleep ==
    /\ dream.pc \in {"sleep", "except"}
    /\ \E t \in (now + 1)..MaxTime : now' = t
    /\ dream' = [dream EXCEPT !.pc = "test"]
    /\ UNCHANGED <<config, is_dreaming, thoughts_generated, dret, memVars, sret>>

\* stop_dreaming called by another thread while the session runs, lines
\* 547-550: the flag is cleared
stop_dreaming ==
    /\ is_dreaming
    /\ is_dreaming' = FALSE
    /\ dream' = [dream EXCEPT !.cleared = TRUE]
    /\ UNCHANGED <<config, thoughts_generated, dret, now, memVars, sret>>

\* Ctrl+C in the thread of the session: KeyboardInterrupt is no Exception,
\* it leaves the loop and is caught at line 476
KeyboardInterrupt ==
    /\ dream.pc # "idle"
    /\ dream_return(FALSE, TRUE, dream.storage_failed)
    /\ UNCHANGED <<config, thoughts_generated, now, memVars, sret>>

\* time passes
DreamTick ==
    /\ now < MaxTime
    /\ now' = now + 1
    /\ UNCHANGED <<dreamVars, memVars, sret>>

DreamNext ==
    \/ start_dreaming
    \/ dream_seed
    \/ _process_thought_score
    \/ _process_thought_golden
    \/ _process_thought_store
    \/ dream_test
    \/ \E o \in ThoughtOutcomes, t \in DreamTexts : dream_generate(o, t)
    \/ dream_sleep
    \/ stop_dreaming
    \/ KeyboardInterrupt
    \/ DreamTick

(***************************************************************************)
(* MultiAgentSystem (src/multi_agent_system.py): the orchestrator that     *)
(* starts one background thread per start_conversation_session call, and   *)
(* the monitor that drains the message_queue into the messages table.      *)
(* The threads share the engine's conversations, agents and message_queue  *)
(* without a lock; a step of a thread is a group of statements that reads  *)
(* or writes the shared state once.                                        *)
(***************************************************************************)
\* the configurations a MultiAgentSystem is constructed with
SystemConfigs ==
    [agent_count : 0..NumAgents, max_exchanges_per_conversation : {MaxExchanges}]

\* conversation_id = f"conv_{int(time.time() * 1000)}", line 432
session_id(ms) == <<"conv", ms>>

\* the locals of a thread that runs process_conversation, lines 236-237
Thread(conversation_id, max_exchanges) ==
    [conversation_id |-> conversation_id, max_exchanges |-> max_exchanges,
     pc |-> "loop", exchanges |-> 0, next_agent |-> 0, response_msg |-> None,
     wake |-> 0]

\* the thread is_alive()
Alive(t) == threads[t].pc # "done"

\* MultiAgentSystem.__init__: _create_agents registers agent_count agents,
\* no session is started, the messages table is empty
SystemInit ==
    /\ system_config \in SystemConfigs
    /\ agents = [a \in 1..system_config.agent_count |-> Agent]
    /\ conversations = <<>>
    /\ message_queue = <<>>
    /\ now = 0
    /\ call = Idle
    /\ completed = {}
    /\ ret = [Returned("init", <<>>, FALSE, FALSE, 0, 0, 0, FALSE, FALSE)
              EXCEPT !.n_agents = system_config.agent_count]
    /\ threads = <<>>
    /\ active_conversations = <<>>
    /\ messages = <<>>
    /\ received = <<>>

\* no MultiAgentSystem: the engine is used on its own
SystemNone ==
    /\ system_config = [agent_count |-> 0, max_exchanges_per_conversation |-> 0]
    /\ threads = <<>>
    /\ active_conversations = <<>>
    /\ messages = <<>>
    /\ received = <<>>
    /\ monitor = "idle"

\* conversation_engine.add_agent, called while no thread is alive, with the
\* next agent id not yet in use
system_add_agent(a) ==
    /\ \A t \in DOMAIN threads : ~Alive(t)
    /\ a = Cardinality(DOMAIN agents) + 1
    /\ add_agent(a)
    /\ UNCHANGED sysVars

\* start_conversation_session, lines 432-448: the id is derived from the
\* clock, start_conversation is called with it (an exception it raises
\* leaves the call before the thread is made), then a thread is started on
\* process_conversation and recorded under the id
start_conversation_session(topic) ==
    LET conversation_id == session_id(now)
    IN /\ Len(threads) < MaxSessions
       /\ start_conversation(conversation_id, topic)
       /\ IF ret'.raised
          THEN UNCHANGED <<threads, active_conversations>>
          ELSE /\ threads' = Append(threads,
                       Thread(conversation_id,
                              system_config.max_exchanges_per_conversation))
               /\ active_conversations' =
                      [c \in DOMAIN active_conversations \cup {conversation_id} |->
                          IF c = conversation_id THEN Len(threads) + 1
                          ELSE active_conversations[c]]
       /\ UNCHANGED <<system_config, messages, received, monitor>>

\* the thread leaves process_conversation, line 280
thread_return(t) ==
    /\ completed' = completed \cup {threads[t].conversation_id}
    /\ threads' = [threads EXCEPT ![t].pc = "done"]

\* lines 239-251 and 162-167 in thread t: the loop test, the choice of the
\* speaker and the context of the request
thread_select(t) ==
    /\ threads[t].pc = "loop"
    /\ LET conversation == conversations[threads[t].conversation_id]
           recent_messages == PySuffix(conversation, ContextWindow)
       IN IF /\ loop_test(threads[t].exchanges, threads[t].max_exchanges)
             /\ available_agents(conversation) # {}
             /\ ~ContextRaises(recent_messages)
          THEN /\ \E next_agent \in available_agents(conversation) :
                     threads' = [threads EXCEPT ![t].pc = "request",
                                                ![t].next_agent = next_agent]
               /\ UNCHANGED completed
          ELSE thread_return(t)
    /\ UNCHANGED <<agents, conversations, message_queue, now, call, ret,
                   system_config, active_conversations, messages, received, monitor>>

\* lines 189-198 and 253-261 in thread t: the answer of the backend and the
\* construction of the message, which reads the clock and the last message
\* of the conversation
thread_respond(t, outcome) ==
    /\ threads[t].pc = "request"
    /\ LET c == threads[t].conversation_id
           conversation == conversations[c]
           response_content == generate_response(outcome)
           response_msg ==
               AgentMessage(<<now, threads[t].exchanges>>, now, threads[t].next_agent,
                            response_content,
                            IF conversation # <<>> THEN conversation[Len(conversation)].id
                            ELSE None,
                            c)
       IN threads' = IF response_content # ""
                     THEN [threads EXCEPT ![t].pc = "append",
                                          ![t].response_msg = response_msg]
                     ELSE [threads EXCEPT ![t].pc = "loop"]
    /\ UNCHANGED <<agents, conversations, message_queue, now, call, completed, ret,
                   system_config, active_conversations, messages, received, monitor>>

\* conversation.append(response_msg), line 263, in thread t
thread_append(t) ==
    /\ threads[t].pc = "append"
    /\ conversations' = [conversations EXCEPT ![threads[t].conversation_id] =
                            Append(@, threads[t].response_msg)]
    /\ threads' = [threads EXCEPT ![t].pc = "put"]
    /\ UNCHANGED <<agents, message_queue, now, call, completed, ret,
                   system_config, active_conversations, messages, received, monitor>>

\* lines 264-274 in thread t: message_queue.put, the speaker's
\* memory_buffer, exchanges += 1, and the start of the sleep of 2 to 5
\* seconds
thread_put(t) ==
    /\ threads[t].pc = "put"
    /\ LET next_agent == threads[t].next_agent
           buffer == Append(agents[next_agent].memory_buffer, threads[t].response_msg)
       IN /\ message_queue' = put(message_queue, threads[t].response_msg)
          /\ agents' = [agents EXCEPT ![next_agent].memory_buffer =
                           IF Len(buffer) > AgentMemoryCap THEN Tail(buffer) ELSE buffer]
    /\ threads' = [threads EXCEPT ![t].pc = "sleep",
                                  ![t].exchanges = @ + 1,
                                  ![t].wake = now + 1]
    /\ UNCHANGED <<conversations, now, call, completed, ret,
                   system_config, active_conversations, messages, received, monitor>>

\* the sleep of thread t is over, line 274: the clock has moved on
thread_wake(t) ==
    /\ threads[t].pc = "sleep"
    /\ now >= threads[t].wake
    /\ threads' = [threads EXCEPT ![t].pc = "loop"]
    /\ UNCHANGED <<agents, conversations, message_queue, now, call, completed, ret,
                   system_config, active_conversations, messages, received, monitor>>

\* save_message, lines 355-375: INSERT OR REPLACE of the message's row
save_message(table, message) == InsertOrReplace(table, message)

\* (mutant) a get that hands out the newest message of the queue
get_newest(queue) == <<queue[Len(queue)], SubSeq(queue, 1, Len(queue) - 1)>>

\* message_queue.get, line 459, on a queue that holds a message: the oldest
\* message and the queue without it
get(queue) == <<Head(queue), Tail(queue)>>

\* monitor_conversations is called, lines 450-456
monitor_start ==
    /\ monitor # "running"
    /\ monitor' = "running"
    /\ UNCHANGED <<engineVars, system_config, threads, active_conversations,
                   messages, received>>

\* one iteration of monitor_conversations that finds a message, lines
\* 459-462: message_queue.get, then save_message
monitor_conversations ==
    /\ monitor = "running"
    /\ message_queue # <<>>
    /\ LET message == get(message_queue)[1]
       IN /\ message_queue' = get(message_queue)[2]
          /\ messages' = save_message(messages, message)
          /\ received' = Append(received, message)
    /\ UNCHANGED <<agents, conversations, now, call, completed, ret,
                   system_config, threads, active_conversations, monitor>>

\* the test of line 476: no thread alive and no conversation recorded
monitor_break(active) == ~active /\ active_conversations = <<>>

\* one iteration of monitor_conversations that finds the queue empty for a
\* second, lines 473-478: the loop is left when monitor_break holds
monitor_empty ==
    /\ monitor = "running"
    /\ message_queue = <<>>
    /\ LET active == \E c \in DOMAIN active_conversations :
                         Alive(active_conversations[c])
       IN monitor' = IF monitor_break(active) THEN "returned" ELSE monitor
    /\ UNCHANGED <<engineVars, system_config, threads, active_conversations,
                   messages, received>>

\* Ctrl-C while monitor_conversations runs, lines 480-481: the call prints
\* and returns, whatever the queue holds
monitor_interrupt ==
    /\ monitor = "running"
    /\ monitor' = "interrupted"
    /\ UNCHANGED <<engineVars, system_config, threads, active_conversations,
                   messages, received>>

SystemNext ==
    \/ Tick /\ UNCHANGED sysVars
    \/ \E a \in AgentIds : system_add_agent(a)
    \/ start_conversation_session("")
    \/ \E t \in DOMAIN threads : thread_select(t)
    \/ \E t \in DOMAIN threads, o \in BackendOutcomes : thread_respond(t, o)
    \/ \E t \in DOMAIN threads : thread_append(t)
    \/ \E t \in DOMAIN threads : thread_put(t)
    \/ \E t \in DOMAIN threads : thread_wake(t)
    \/ monitor_conversations

vars == <<engineVars, memVars, scoreVars, dreamVars, sysVars>>

Init == EngineInit /\ MemInit /\ ScoreInit /\ DreamInit /\ SystemNone

\* the engine driven by one caller thread
Spec == Init /\ [][EngineNext /\ UNCHANGED <<memVars, scoreVars, dreamVars, sysVars>>]_vars

\* the MemorySystem driven by one caller thread
SpecMem == Init /\ [][MemNext /\ UNCHANGED <<engineVars, scoreVars, dreamVars, sysVars>>]_vars

\* the golden table of the MemorySystem
SpecGolden == Init /\ [][GoldenNext /\ UNCHANGED <<engineVars, scoreVars, dreamVars, sysVars>>]_vars

\* the InterestDetector as a pure function of its arguments
InitScore == EngineInit /\ MemInit /\ ScoreInputInit /\ DreamInit /\ SystemNone

SpecScore == InitScore /\ [][ScoreNext /\ UNCHANGED <<engineVars, memVars, dreamVars, sysVars>>]_vars

\* a DreamingAI with any configured cap: the thread that calls
\* start_dreaming, a thread that calls stop_dreaming, and the clock
InitDream == EngineInit /\ MemInit /\ ScoreInit /\ DreamConfigInit /\ SystemNone

SpecDream ==
    InitDream /\ [][DreamNext /\ UNCHANGED <<agents, conversations, message_queue,
                                              call, completed, ret, sysVars,
                                              suspended>>]_vars

\* the test of lines 464-466 in a thread that calls start_dreaming: the
\* call returns when the flag is set, and goes on to line 468 otherwise
start_dreaming_test ==
    /\ dream.pc = "idle"
    /\ Len(ever_added) < MaxDreamAdds
    /\ IF is_dreaming
       THEN /\ dret' = [dret EXCEPT !.op = "already_dreaming"]
            /\ UNCHANGED dream
       ELSE /\ dream' = [DreamIdle EXCEPT !.pc = "start"]
            /\ UNCHANGED dret
    /\ UNCHANGED <<config, is_dreaming, thoughts_generated, now, memVars, sret>>

\* lines 471-475 in that thread: the flag is set, the list is emptied and
\* _dream_loop is entered
start_dreaming_set ==
    /\ dream.pc = "start"
    /\ is_dreaming' = TRUE
    /\ thoughts_generated' = <<>>
    /\ dream' = [dream EXCEPT !.pc = "seed"]
    /\ UNCHANGED <<config, dret, now, memVars, sret>>

\* the interpreter switches between the two threads that call
\* start_dreaming on one DreamingAI: the locals of the scheduled thread
\* are in dream, those of the other in suspended
switch ==
    /\ dream' = suspended
    /\ suspended' = dream
    /\ UNCHANGED <<config, is_dreaming, thoughts_generated, dret, now, memVars, sret>>

\* a step of the scheduled thread
RaceStep ==
    \/ start_dreaming_test
    \/ start_dreaming_set
    \/ dream_seed
    \/ _process_thought_score
    \/ _process_thought_golden
    \/ _process_thought_store
    \/ dream_test
    \/ \E o \in ThoughtOutcomes, t \in DreamTexts : dream_generate(o, t)
    \/ dream_sleep

RaceNext == (RaceStep /\ UNCHANGED suspended) \/ switch

\* two threads call start_dreaming on one DreamingAI
SpecRace ==
    Init /\ [][RaceNext /\ UNCHANGED <<agents, conversations, message_queue,
                                        call, completed, ret, sysVars>>]_vars

\* a step of the process_conversation call in flight
ProcessStep ==
    \/ process_select
    \/ \E o \in BackendOutcomes : process_respond(o)
    \/ process_sleep

\* the engine driven by one caller thread that keeps running: the call in
\* flight takes its next step whenever it can (the backend answers every
\* request, with any of its outcomes, within its timeout of 30 seconds)
SpecLive ==
    Init /\ [][EngineNext /\ UNCHANGED <<memVars, scoreVars, dreamVars, sysVars>>]_vars
         /\ WF_engineVars(ProcessStep)

\* the ids a caller of start_conversation uses for two conversations
StartIds == {"conv_1", "conv_2"}

StartNext ==
    \/ Tick
    \/ \E a \in AgentIds : add_agent(a)
    \/ \E c \in StartIds, t \in Topics : start_conversation(c, t)

\* the engine while one caller thread registers agents and starts
\* conversations under two ids
SpecStart == Init /\ [][StartNext /\ UNCHANGED <<memVars, scoreVars, dreamVars, sysVars>>]_vars

\* a MultiAgentSystem: the thread that calls start_conversation_session, the
\* threads it starts, the monitor and the clock
\* a MultiAgentSystem whose monitor_conversations has been called
InitSystem == SystemInit /\ monitor = "running" /\ MemInit /\ ScoreInit /\ DreamInit

SpecSystem == InitSystem /\ [][SystemNext /\ UNCHANGED <<memVars, scoreVars, dreamVars>>]_vars

\* a MultiAgentSystem as main drives it: sessions are started, and
\* monitor_conversations is called, polls, returns or is interrupted, and
\* is called again
InitMonitor == SystemInit /\ monitor = "idle" /\ MemInit /\ ScoreInit /\ DreamInit

\* one iteration of the loop of monitor_conversations, lines 456-478
MonitorStep == monitor_conversations \/ monitor_empty

\* the agents are those of the configuration, so a thread returns from its
\* first pass through thread_select: it finds no other agent, or the
\* context of the seed raises (line 166)
MonitorNext ==
    \/ Tick /\ UNCHANGED sysVars
    \/ start_conversation_session("")
    \/ \E t \in DOMAIN threads : thread_select(t)
    \/ monitor_start
    \/ monitor_conversations
    \/ monitor_empty
    \/ monitor_interrupt

SpecMonitor ==
    /\ InitMonitor
    /\ [][MonitorNext /\ UNCHANGED <<memVars, scoreVars, dreamVars>>]_vars
    /\ WF_<<message_queue, monitor>>(MonitorStep)

(***************************************************************************)
(* Claims about the ConversationEngine, checked under Spec                 *)
(***************************************************************************)
\* a process_conversation call on a registered conversation has returned
\* and no other call has begun since
ProcessReturned ==
    /\ call.pc = "idle"
    /\ ret.op = "process_conversation"
    /\ ret.existed

\* C1: no two adjacent messages of a conversation have the same agent_id,
\* after any sequence of start_conversation and process_conversation calls
\* (the seed's author counts as the first speaker).
C1_NoConsecutiveSpeaker ==
    \A c \in DOMAIN conversations :
        \A i \in 1..(Len(conversations[c]) - 1) :
            conversations[c][i].agent_id # conversations[c][i + 1].agent_id

\* the case C1 is about, two messages in one conversation: no state of Spec
\* reaches it (its negation is an invariant), since generate_response
\* raises on every context that holds a message
C1_TwoMessages == \E c \in DOMAIN conversations : Len(conversations[c]) >= 2

C2_ExactlyNExchanges_NothingCaught ==
    (ProcessReturned /\ ~ret.caught /\ ret.n_agents >= 2 /\ ret.len0 >= 1) =>
        /\ ret.max_exchanges = 0
        /\ ret.exchanges = 0
        /\ Len(conversations[ret.conversation_id]) = ret.len0

\* C3: with exactly one registered agent, process_conversation(id, N) on a
\* started conversation appends nothing, does not call generate_response,
\* raises nothing, catches nothing and ends at the "completed" log line.
C3_SingleAgentNoExchange ==
    (ProcessReturned /\ ret.n_agents = 1 /\ ret.len0 >= 1) =>
        /\ ret.exchanges = 0
        /\ ~ret.asked
        /\ ~ret.raised
        /\ ~ret.caught
        /\ Len(conversations[ret.conversation_id]) = ret.len0
        /\ ret.conversation_id \in completed

\* C3 witness: such a call, asked for at least one exchange, has returned
C3_Witness ==
    /\ ProcessReturned
    /\ ret.n_agents = 1
    /\ ret.len0 = 1
    /\ ret.max_exchanges >= 1
    /\ ret.conversation_id \in completed

\* C4: start_conversation on an id that is already registered, with any
\* topic, returns that id without raising and changes nothing: the
\* conversation keeps its messages (no second seed, no new first speaker)
\* and nothing is put on message_queue.
C4_StartIdempotent ==
    [][\A c \in ConvIds, t \in Topics :
          (c \in DOMAIN conversations /\ start_conversation(c, t)) =>
              /\ UNCHANGED <<conversations, message_queue, agents, completed>>
              /\ ret'.op = "start_conversation"
              /\ ret'.conversation_id = c
              /\ ~ret'.raised]_vars

\* C4 witness: a second start_conversation has returned on a conversation
\* that holds its seed
C4_Witness ==
    /\ ret.op = "start_conversation"
    /\ ret.existed
    /\ Len(conversations[ret.conversation_id]) >= 1

\* C15: an exception raised inside an iteration of process_conversation
\* ends the loop at that iteration: no iteration follows it, the messages
\* appended before it remain, the call returns without raising, with fewer
\* than N exchanges, and the "completed" line is logged.
C15_ExceptionBreaksLoop ==
    /\ call.caught => call.pc = "idle"
    /\ (ProcessReturned /\ ret.caught) =>
           /\ ~ret.raised
           /\ ret.exchanges < ret.max_exchanges
           /\ Len(conversations[ret.conversation_id]) = ret.len0 + ret.exchanges
           /\ ret.conversation_id \in completed

\* C15 witness: a call asked for two exchanges has returned after one
\* appended message and an exception in its second iteration
C15_Witness ==
    /\ ProcessReturned
    /\ ret.caught
    /\ ret.max_exchanges = 2
    /\ ret.exchanges = 1
    /\ Len(conversations[ret.conversation_id]) = ret.len0 + 1

\* C16: once process_conversation has returned for a conversation (it is
\* logged "completed"), no later process_conversation call on that id
\* appends a message to it.
C16_CompletedIsTerminal ==
    (ProcessReturned /\ ret.completed0) =>
        Len(conversations[ret.conversation_id]) = ret.len0

\* C17, for the engine: when a process_conversation call with at least two
\* agents, one of whose requests to the backend failed, returns, it has not
\* raised, the failed turn was appended and counted, and the call went on
\* to its N exchanges.
C17_FallbackTurnAndContinue ==
    (ProcessReturned /\ ret.n_agents >= 2 /\ ret.backend_failed) =>
        /\ ~ret.raised
        /\ Len(conversations[ret.conversation_id]) = ret.len0 + ret.exchanges
        /\ ret.exchanges = ret.max_exchanges

\* C17 without its last clause: the failed turn is appended and counted,
\* with the fallback text, and nothing is raised
C17_FallbackTurnAppended ==
    (ProcessReturned /\ ret.backend_failed) =>
        /\ ~ret.raised
        /\ ret.exchanges >= 1
        /\ Len(conversations[ret.conversation_id]) = ret.len0 + ret.exchanges
        /\ \E i \in DOMAIN conversations[ret.conversation_id] :
               conversations[ret.conversation_id][i].content = _fallback_response

(***************************************************************************)
(* Claims about the MemorySystem, checked under SpecMem and SpecGolden     *)
(***************************************************************************)
\* the records added to the current MemorySystem instance, in call order
added_here == SubSeq(ever_added, instance_start + 1, Len(ever_added))

Range(s) == {s[i] : i \in DOMAIN s}

\* the last record of ever_added that carries the id
LastAdded(id) ==
    ever_added[CHOOSE i \in DOMAIN ever_added :
                  /\ ever_added[i].id = id
                  /\ \A j \in DOMAIN ever_added : ever_added[j].id = id => j <= i]

\* C5: once more than max_short_term records were added, get_recent_thoughts(n)
\* returns, for every n >= 0, exactly the min(n, max_short_term) most
\* recently added records in insertion order.
C5_GetRecentLastN ==
    (mret.op = "get_recent_thoughts" /\ Len(added_here) > max_short_term) =>
        mret.val = LastN(added_here, Min(mret.n, max_short_term))

\* C5 for n >= 1 only, where the code agrees with it
C5_GetRecentLastN_Positive ==
    (mret.op = "get_recent_thoughts" /\ Len(added_here) > max_short_term
        /\ mret.n >= 1) =>
        mret.val = LastN(added_here, Min(mret.n, max_short_term))

\* C6: after any sequence of add_thought calls by one writer the short-term
\* buffer holds at most max_short_term records and equals the last
\* min(k, max_short_term) of the k records added, in insertion order.
C6_BufferIsLastCap ==
    /\ Len(short_term_memory) <= max_short_term
    /\ short_term_memory =
           LastN(added_here, Min(Len(added_here), max_short_term))

\* C6 witness: more than max_short_term records were added and the oldest
\* one is no longer in the buffer
C6_Witness ==
    /\ Len(added_here) > max_short_term
    /\ Len(short_term_memory) = max_short_term
    /\ added_here[1] \notin Range(short_term_memory)

\* C7: the thoughts table holds exactly one row for every id ever added, and
\* no other row; the row carries the content of the last add_thought with
\* that id.
C7_UpsertById ==
    /\ \A i, j \in DOMAIN thoughts : thoughts[i].id = thoughts[j].id => i = j
    /\ {thoughts[i].id : i \in DOMAIN thoughts} = {t.id : t \in Range(ever_added)}
    /\ Len(thoughts) = Cardinality({t.id : t \in Range(ever_added)})
    /\ \A i \in DOMAIN thoughts : thoughts[i].content = LastAdded(thoughts[i].id).content

\* C7 witness: an id was added twice with different contents and add_thought
\* has replaced its row
C7_Witness ==
    /\ mret.op = "add_thought"
    /\ mret.existed
    /\ \E i, j \in DOMAIN ever_added :
          /\ i < j
          /\ j = Len(ever_added)
          /\ ever_added[i].id = ever_added[j].id
          /\ ever_added[i].content # ever_added[j].content
          /\ \E k \in DOMAIN thoughts :
                /\ thoughts[k].id = ever_added[j].id
                /\ thoughts[k].content = ever_added[j].content

\* C8: get_recent_thoughts is served from the short-term buffer only: a
\* MemorySystem constructed over a database that holds rows has an empty
\* buffer and returns nothing until add_thought is called on it, and what
\* get_recent_thoughts returns was added to that instance.
C8_RecentOnlyFromBuffer ==
    /\ added_here = <<>> => short_term_memory = <<>>
    /\ mret.op = "get_recent_thoughts" =>
          /\ added_here = <<>> => mret.val = <<>>
          /\ \A i \in DOMAIN mret.val : mret.val[i] \in Range(added_here)

\* C8 witness: get_recent_thoughts(n), n >= 1, has returned nothing on a new
\* instance whose thoughts table holds rows
C8_Witness ==
    /\ thoughts # <<>>
    /\ added_here = <<>>
    /\ mret.op = "get_recent_thoughts"
    /\ mret.n >= 1
    /\ mret.val = <<>>

\* C9: add_golden_thought(record, context) leaves the short-term buffer and
\* the thoughts table unchanged; after it the golden table holds exactly one
\* row with the record's id, which carries the record's values and the
\* context, and the rows of the other ids are as before.
C9_GoldenUpsertOnly ==
    [][\A t \in GoldenThoughts, c \in Contexts :
          add_golden_thought(t, c) =>
              /\ UNCHANGED <<short_term_memory, thoughts>>
              /\ Cardinality({i \in DOMAIN golden_thoughts' :
                                 golden_thoughts'[i].id = t.id}) = 1
              /\ \A i \in DOMAIN golden_thoughts' :
                    golden_thoughts'[i].id = t.id =>
                        /\ golden_thoughts'[i].content = t.content
                        /\ golden_thoughts'[i].interest_score = t.interest_score
                        /\ golden_thoughts'[i].timestamp = isoformat(t.timestamp)
                        /\ golden_thoughts'[i].discovery_context = c
              /\ {r \in Range(golden_thoughts') : r.id # t.id}
                    = {r \in Range(golden_thoughts) : r.id # t.id}
              /\ Len(golden_thoughts') =
                    Cardinality({r \in Range(golden_thoughts) : r.id # t.id}) + 1]_vars

\* C9 witness: add_golden_thought has replaced the row of an id while the
\* buffer, the thoughts table and another golden row hold records
C9_Witness ==
    /\ mret.op = "add_golden_thought"
    /\ mret.existed
    /\ short_term_memory # <<>>
    /\ thoughts # <<>>
    /\ Len(golden_thoughts) >= 2

\* the order of two datetimes
TimeLess(a, b) == a.sec < b.sec \/ (a.sec = b.sec /\ a.micro < b.micro)

\* C10: get_golden_thoughts returns every golden record exactly once, by
\* interest_score descending and, among equal scores, by the timestamp of
\* the record descending.
C10_GoldenOrdered ==
    mret.op = "get_golden_thoughts" =>
        /\ Len(mret.val) = Cardinality(DOMAIN golden_given)
        /\ {mret.val[i].id : i \in DOMAIN mret.val} = DOMAIN golden_given
        /\ \A i \in DOMAIN mret.val :
              /\ mret.val[i].content = golden_given[mret.val[i].id].content
              /\ mret.val[i].interest_score = golden_given[mret.val[i].id].interest_score
        /\ \A i, j \in DOMAIN mret.val :
              i < j =>
                  /\ mret.val[i].interest_score >= mret.val[j].interest_score
                  /\ mret.val[i].interest_score = mret.val[j].interest_score =>
                        ~TimeLess(golden_given[mret.val[i].id].timestamp,
                                  golden_given[mret.val[j].id].timestamp)

\* C10 witness: three golden records were returned in another order than
\* they are stored in, two of them with equal scores and timestamps within
\* the same second
C10_Witness ==
    /\ mret.op = "get_golden_thoughts"
    /\ Len(mret.val) = 3
    /\ mret.val # golden_thoughts
    /\ \E i \in 1..2 :
          /\ mret.val[i].interest_score = mret.val[i + 1].interest_score
          /\ golden_given[mret.val[i].id].timestamp.sec
                = golden_given[mret.val[i + 1].id].timestamp.sec
          /\ golden_given[mret.val[i].id].timestamp.micro
                > golden_given[mret.val[i + 1].id].timestamp.micro

(***************************************************************************)
(* Claims about the InterestDetector, checked under SpecScore              *)
(***************************************************************************)
\* the text holds the keyword, whatever the case of either
HoldsKeyword(text, keyword) ==
    \E i \in DOMAIN text : LowerWord(text[i]) = LowerWord(keyword)

\* the text holds a breakthrough keyword
HoldsBreakthrough(text) == \E k \in gold_strike_indicators : HoldsKeyword(text, k)

C11_GoldExactly_LowerCaseKeywords ==
    (sret.op = "is_gold_strike" /\ ~HoldsKeyword(sret.thought, "now I see")) =>
        (sret.val <=> (sret.score > 60 \/ HoldsBreakthrough(sret.thought)))

\* the scores of the Thoughts in a list
ScoresOf(rows) == {rows[i].interest_score : i \in DOMAIN rows}

\* the additive model before the clamp: 0.1 for each generic keyword the
\* text holds, 0.5 for each breakthrough keyword it holds, 0.1 for more
\* than 100 characters, 0.05 for each '?' and 0.1 for each '!'
Additive(text) ==
    10 * Cardinality({k \in interest_keywords : HoldsKeyword(text, k)})
    + 50 * Cardinality({k \in gold_strike_indicators : HoldsKeyword(text, k)})
    + (IF len(text) > 100 THEN 10 ELSE 0)
    + 5 * Cardinality({i \in DOMAIN text : text[i] = "?"})
    + 10 * Cardinality({i \in DOMAIN text : text[i] = "!"})

C13_ScoreIsAdditive_LowerCaseKeywords ==
    (sret.op = "calculate_interest_score" /\ ~HoldsKeyword(sret.thought, "now I see")) =>
        sret.val = Min(Additive(sret.thought), 100)

\* C14: calculate_interest_score(text) is exactly 0.0 for every text that
\* holds no interest keyword, no breakthrough keyword, no '?' and no '!'
\* and has at most 100 characters.
C14_PlainTextScoresZero ==
    (/\ sret.op = "calculate_interest_score"
     /\ \A k \in interest_keywords \cup gold_strike_indicators :
            ~HoldsKeyword(sret.thought, k)
     /\ \A i \in DOMAIN sret.thought : sret.thought[i] \notin {"?", "!"}
     /\ len(sret.thought) <= 100) =>
        sret.val = 0

\* C14 witness: a plain text of exactly 100 characters has been scored
C14_Witness ==
    /\ sret.op = "calculate_interest_score"
    /\ sret.thought = <<"plain", "run100">>
    /\ sret.val = 0

(***************************************************************************)
(* Claims about the DreamingAI session, checked under SpecDream            *)
(***************************************************************************)
\* a start_dreaming call has returned and no other has begun since
DreamReturnedNow == dream.pc = "idle" /\ dret.op = "start_dreaming"

\* C12: calculate_interest_score returns a score in [0, 1] for every text
\* it is given, and every thought in the buffer, in the thoughts table and
\* in the golden table and every message in a conversation or on the queue
\* carries a score in [0, 1].
C12_ScoreInUnitInterval ==
    /\ sret.op = "calculate_interest_score" => (0 <= sret.val /\ sret.val <= 100)
    /\ \A x \in ScoresOf(short_term_memory) \cup ScoresOf(thoughts)
                \cup ScoresOf(golden_thoughts) \cup ScoresOf(message_queue) :
           0 <= x /\ x <= 100
    /\ \A c \in DOMAIN conversations :
           \A x \in ScoresOf(conversations[c]) : 0 <= x /\ x <= 100

\* C12 witness: a text whose addends sum to 1.1 has been scored 1.0 and
\* stored with that score in both tables
C12_Witness ==
    /\ \E i \in DOMAIN thoughts :
           /\ thoughts[i].content = <<"eureka", "profound", "!">>
           /\ thoughts[i].interest_score = 100
    /\ \E i \in DOMAIN golden_thoughts : golden_thoughts[i].interest_score = 100

\* C17, for the single loop: a session one of whose requests to the backend
\* failed, and that was neither stopped nor interrupted, returns without
\* raising when thought_count has reached the cap
C17_DreamFallbackContinues ==
    (DreamReturnedNow /\ dret.backend_failed /\ ~dret.cleared /\ ~dret.interrupted) =>
        /\ ~dret.raised
        /\ dret.thought_count = dret.max_thoughts

\* C18: a durable write that raises during a session is surfaced to the
\* caller of start_dreaming: no further iteration runs in that session, and
\* the call raises.
C18_StorageFailureSurfaced ==
    /\ dream.storage_failed => dream.pc \in {"except", "test", "idle"}
    /\ (DreamReturnedNow /\ dret.storage_failed /\ ~dret.interrupted) => dret.raised

\* C19: a session never processes more thoughts than the configured cap,
\* the seed counted, for every cap >= 0.
C19_NeverMoreThanCap ==
    /\ dream.processed <= config.max_thoughts
    /\ dret.processed <= dret.max_thoughts

\* C19 for the caps of at least 1, with the iterations: none is begun once
\* thought_count has reached the cap
C19_NeverMoreThanCap_PositiveCap ==
    config.max_thoughts >= 1 =>
        /\ dream.processed <= config.max_thoughts
        /\ dret.processed <= dret.max_thoughts
        /\ dream.pc \in {"generate", "score", "golden", "store"} /\ dream.in_loop
               => dream.thought_count < config.max_thoughts

\* C20: once stop_dreaming has cleared the flag during a session, no
\* iteration begins, and at most one thought is stored after the clearing
\* (the one in hand when the flag was cleared).
C20_CooperativeCancel ==
    /\ ~dream.began_after_clear /\ ~dret.began_after_clear
    /\ dream.after_clear <= 1 /\ dret.after_clear <= 1

\* C20 witness: the flag was cleared while the request of an iteration was
\* in flight, the thought of that iteration was stored, and the session
\* returned below its cap
C20_Witness ==
    /\ DreamReturnedNow
    /\ dret.cleared
    /\ dret.after_clear = 1
    /\ dret.thought_count = 2
    /\ dret.max_thoughts = 3
    /\ Len(thoughts_generated) = 2

(***************************************************************************)
(* Claims about message ids, order and the outbound channel                *)
(***************************************************************************)
\* the places of all messages: a conversation id and an index in it
Places == UNION {{<<c, i>> : i \in DOMAIN conversations[c]} : c \in DOMAIN conversations}

MsgAt(p) == conversations[p[1]][p[2]]

\* C21: message ids are globally unique: no two distinct messages created
\* by start_conversation or process_conversation, in the same or in
\* different conversations, carry the same id.
C21_IdsGloballyUnique ==
    \A p, q \in Places : p # q => MsgAt(p).id # MsgAt(q).id

\* C22: within one conversation the timestamps of the messages are
\* non-decreasing along the message sequence.
C22_TimestampsNonDecreasing ==
    \A c \in DOMAIN conversations :
        \A i \in 1..(Len(conversations[c]) - 1) :
            conversations[c][i].timestamp <= conversations[c][i + 1].timestamp

\* the message was made by process_conversation (its id ends with the
\* exchange counter), not by start_conversation
ByProcess(m) == Len(m.id) = 2

\* C25: every message appended by process_conversation has response_to
\* equal to the id of the message immediately before it in the
\* conversation, and the seed message appended by start_conversation has no
\* response_to.
C25_ResponseToPrevious ==
    \A c \in DOMAIN conversations :
        \A i \in DOMAIN conversations[c] :
            IF ByProcess(conversations[c][i])
            THEN /\ i > 1
                 /\ conversations[c][i].response_to = conversations[c][i - 1].id
            ELSE conversations[c][i].response_to = None

\* C25 for the messages that have a message before them
C25_ResponseToPrevious_WhenNotFirst ==
    \A c \in DOMAIN conversations :
        \A i \in DOMAIN conversations[c] :
            IF ByProcess(conversations[c][i])
            THEN i > 1 => conversations[c][i].response_to = conversations[c][i - 1].id
            ELSE conversations[c][i].response_to = None

\* the messages table holds the row of this message
Persisted(message) == \E i \in DOMAIN messages : messages[i] = message

\* C23: every message is written to durable storage before it is published
\* on the outbound channel: a message that waits in the message_queue for
\* its consumer has its row in the messages table.
C23_PersistedBeforePublished ==
    \A i \in DOMAIN message_queue : Persisted(message_queue[i])

\* C24: at any time at most one thread is executing process_conversation
\* for a given conversation id.
C24_OneThreadPerConversation ==
    \A t, u \in DOMAIN threads :
        (Alive(t) /\ Alive(u) /\ threads[t].conversation_id = threads[u].conversation_id)
            => t = u

\* the messages agent a spoke in process_conversation calls on conversation
\* c, in the order of the conversation
Spoken(a, c) ==
    SelectSeq(conversations[c], LAMBDA m : m.agent_id = a /\ ByProcess(m))

\* no process_conversation call is running
NoProcessRunning == call.pc = "idle" /\ \A t \in DOMAIN threads : ~Alive(t)

\* C26: after any sequence of process_conversation calls, the
\* memory_buffer of each agent holds at most 10 messages, none of them by
\* another agent, and holds, in order, the most recent messages the agent
\* spoke (all of them while they are fewer than 10).
C26_MemoryBufferIsRecentSpoken ==
    NoProcessRunning =>
        \A a \in DOMAIN agents :
            LET buffer == agents[a].memory_buffer
            IN /\ Len(buffer) <= AgentMemoryCap
               /\ \A i \in DOMAIN buffer : buffer[i].agent_id = a
               /\ Len(buffer) < AgentMemoryCap =>
                      \A c \in DOMAIN conversations :
                          SelectSeq(buffer, LAMBDA m : m.conversation_id = c) = Spoken(a, c)

\* what the outbound channel has carried: the messages its consumer has
\* received, then the messages that wait in it, in the order of delivery
Published == received \o message_queue

\* C27: every message appended to a conversation is put on the outbound
\* channel exactly once, and the channel delivers the messages of a
\* conversation in the order in which they stand in the conversation (once
\* the calls that append have returned).
C27_PublishedOnceInOrder ==
    NoProcessRunning =>
        \A c \in DOMAIN conversations :
            SelectSeq(Published, LAMBDA m : m.conversation_id = c) = conversations[c]

\* C28: process_conversation(id, N) eventually returns, whatever the
\* backend answers (text, empty text, an error status, an exception or a
\* timeout) and without the message_queue being drained; the clock of the
\* model stops at MaxTime, where a sleeping call waits for ever.
C28_ProcessEventuallyReturns ==
    (call.pc # "idle") ~> (call.pc = "idle" \/ now = MaxTime)

\* s is a prefix of t
IsPrefix(s, t) == Len(s) <= Len(t) /\ SubSeq(t, 1, Len(s)) = s

\* C29: the message sequence of a conversation is append-only: every step
\* leaves the conversation registered and its previous sequence, with the
\* id, author, content, response_to and timestamp of every message, as a
\* prefix of the new one.
C29_AppendOnly ==
    [][\A c \in DOMAIN conversations :
           /\ c \in DOMAIN conversations'
           /\ IsPrefix(conversations[c], conversations'[c])]_vars

\* C29 witness: a message that process_conversation appended is still the
\* conversation after a later start_conversation call on its id returned
C29_Witness ==
    /\ ret.op = "start_conversation"
    /\ ret.existed
    /\ Len(conversations[ret.conversation_id]) = 1
    /\ ByProcess(conversations[ret.conversation_id][1])
    /\ ret.conversation_id \in completed

(***************************************************************************)
(* Claims about the golden table of a DreamingAI, checked under SpecDream  *)
(***************************************************************************)
\* the ids of the rows of a table
Ids(table) == {table[i].id : i \in DOMAIN table}

\* the ids of the stored records whose kind is gold_strike
StoredGoldIds ==
    {thoughts[i].id : i \in {j \in DOMAIN thoughts : thoughts[j].thought_type = "gold_strike"}}

\* no durable write has failed: every thought given to add_thought has its
\* row, and no session met a failure
NoStorageFailure ==
    /\ \A i \in DOMAIN ever_added : HasRow(thoughts, ever_added[i].id)
    /\ ~dream.storage_failed /\ ~dret.storage_failed

\* every thought that _process_thought took up has been processed: what
\* add_golden_thought was given, add_thought was given too
AllProcessed ==
    \A id \in DOMAIN golden_given : \E i \in DOMAIN ever_added : ever_added[i].id = id

\* is_gold(text, score): the score is above 0.6 or the text holds a
\* breakthrough keyword
IsGold(text, score) == score > 60 \/ HoldsBreakthrough(text)

\* C30: after any sequence of processed thoughts with no storage failure,
\* the golden table holds exactly the ids of the stored records whose kind
\* is gold_strike, these are exactly the stored thoughts for which is_gold
\* held when they were created, and every golden id is present in the
\* table thoughts.
C30_GoldenIsStoredGold ==
    (NoStorageFailure /\ AllProcessed) =>
        /\ Ids(golden_thoughts) = StoredGoldIds
        /\ \A i \in DOMAIN thoughts :
               thoughts[i].thought_type = "gold_strike"
                   <=> IsGold(thoughts[i].content, thoughts[i].interest_score)
        /\ Ids(golden_thoughts) \subseteq Ids(thoughts)

\* C30 with is_gold read as the value is_gold_strike returned
C30_GoldenIsStoredGold_AsFlagged ==
    (NoStorageFailure /\ AllProcessed) =>
        /\ Ids(golden_thoughts) = StoredGoldIds
        /\ \A i \in DOMAIN thoughts :
               thoughts[i].thought_type = "gold_strike"
                   <=> is_gold_strike(thoughts[i].content, thoughts[i].interest_score)
        /\ Ids(golden_thoughts) \subseteq Ids(thoughts)

C32_PromptFromLastFive_WhenBuilt ==
    call.pc = "request" =>
        LET conversation == conversations[call.conversation_id]
            k == IF Len(conversation) < ContextWindow THEN Len(conversation)
                 ELSE ContextWindow
        IN /\ Len(call.recent_messages) = k
           /\ \A i \in 1..k :
                  call.recent_messages[i] = conversation[Len(conversation) - k + i]

C33_RegisteredHasSeed ==
    \A c \in DOMAIN conversations :
        /\ conversations[c] # <<>>
        /\ ~ByProcess(conversations[c][1])
        /\ conversations[c][1].response_to = None

\* C34: while a monitor is running, every message put on the message_queue
\* is eventually saved to the messages table, and messages are saved in
\* the order in which they were published: the sequence of what was
\* delivered and what waits only grows at its end, each message taken is
\* in the table in the next state, and the k-th published message is
\* taken unless the monitor stops.
C34_PublishedEventuallySaved ==
    /\ [][IsPrefix(Published, Published')]_<<message_queue, received>>
    /\ [][received' # received =>
             /\ received' = Append(received, Head(message_queue))
             /\ \E i \in DOMAIN messages' : messages'[i] = Head(message_queue)]_<<received, messages>>
    /\ \A k \in 1..MaxSessions :
           (monitor = "running" /\ Len(Published) >= k)
               ~> (Len(received) >= k \/ monitor # "running")

\* C34 witness: two sessions published their seeds, in this order, and the
\* running monitor has taken both, in this order; the rows of both are in
\* the messages table
C34_Witness ==
    /\ monitor = "running"
    /\ message_queue = <<>>
    /\ Len(received) = 2
    /\ received[1].timestamp < received[2].timestamp
    /\ \A i \in 1..2 : Persisted(received[i])

\* every conversation thread has finished and the message_queue is empty
AllFinishedAndDrained ==
    /\ \A t \in DOMAIN threads : ~Alive(t)
    /\ message_queue = <<>>

\* C35: monitor_conversations returns once every conversation thread has
\* finished and the message_queue is empty: a running monitor in such a
\* state leaves it, unless a new thread or a new message comes first; and
\* it never returns from its loop while a published message still waits
\* in the queue.
C35_MonitorReturns ==
    /\ (monitor = "running" /\ AllFinishedAndDrained)
           ~> (monitor # "running" \/ ~AllFinishedAndDrained)
    /\ [][monitor' = "returned" => message_queue = <<>>]_<<monitor>>

\* the second half of C35 alone
C35_MonitorReturns_OnlyWhenDrained ==
    [][monitor' = "returned" => message_queue = <<>>]_<<monitor>>

(***************************************************************************)
(* Claims about concurrent sessions and the short-term buffer              *)
(***************************************************************************)
\* the start_dreaming call r has entered _dream_loop and not yet left it
InDreamLoop(r) == r.pc \notin {"idle", "start"}

\* C36: at most one dream loop runs at a time on a DreamingAI instance,
\* also when two threads call start_dreaming concurrently, and a call made
\* while a session runs never resets the list of generated thoughts: the
\* two calls are never both inside _dream_loop.
C36_OneDreamLoop == ~(InDreamLoop(dream) /\ InDreamLoop(suspended))

\* C37: if the durable write inside add_thought fails, the MemorySystem is
\* left unchanged: the short_term_memory holds what it held before the
\* call (the record is not in it, no older record has been evicted), so
\* get_recent_thoughts returns what it returned before.
C37_FailedAddLeavesBuffer ==
    [][mret'.op = "add_thought_raised" => short_term_memory' = short_term_memory
      ]_<<short_term_memory, mret>>

\* the part of C37 that concerns the durable table
C37_FailedAddLeavesTable ==
    [][mret'.op = "add_thought_raised" => thoughts' = thoughts]_<<thoughts, mret>>

\* C38: the short_term_memory never holds two records with the same id:
\* re-adding an existing id replaces the buffered record, so
\* get_recent_thoughts never returns the same id twice.
C38_BufferIdsDistinct ==
    \A i, j \in DOMAIN short_term_memory :
        short_term_memory[i].id = short_term_memory[j].id => i = j

\* C39: process_conversation on an id that was never started changes
\* nothing: the step in which such a call returns registers no
\* conversation, appends and publishes no message, touches no agent's
\* memory_buffer, and the call returns without raising.
C39_ProcessUnknownChangesNothing ==
    [][(ret' # ret /\ ret'.op = "process_conversation" /\ ~ret'.existed) =>
          /\ UNCHANGED <<agents, conversations, message_queue, now, call, completed>>
          /\ ~ret'.raised
          /\ ret'.conversation_id \notin DOMAIN conversations'
      ]_engineVars

\* C39 witness: process_conversation has returned for conv_0, which was
\* never started, while another conversation holds its seed and the seed
\* waits in the message_queue
C39_Witness ==
    /\ call.pc = "idle"
    /\ ret.op = "process_conversation"
    /\ ~ret.existed
    /\ ~ret.raised
    /\ ret.conversation_id = "conv_0"
    /\ DOMAIN conversations = {"conv_1"}
    /\ Len(conversations["conv_1"]) = 1
    /\ Len(message_queue) = 1
    /\ agents # <<>>

====
